---- MODULE Spec2Model ----
(***************************************************************************)
(* Model of linfb's rendering pipeline: Color, Rectangle, Image,           *)
(* Compositor (src/src/compositor.rs, src/src/shape.rs, src/src/image.rs), *)
(* the Caption line breaker and renderer (src/src/text.rs) and the         *)
(* Framebuffer (src/src/lib.rs).                                           *)
(***************************************************************************)
EXTENDS Integers, Sequences, FiniteSets, TLC

(***************************************************************************)
(* IEEE-754 binary32 arithmetic, as the code's `f32` expressions use it.   *)
(* A non-negative f32 is <<m, e>>, standing for m * 2^e, with m = 0 or     *)
(* 2^23 <= m < 2^24.  Every operation rounds to nearest, ties to even.     *)
(* All values the code computes lie in [0, 256), far from subnormals and   *)
(* infinities.                                                             *)
(***************************************************************************)
RECURSIVE Pow2(_)
Pow2(n) == IF n <= 0 THEN 1 ELSE 2 * Pow2(n - 1)

RECURSIVE BitLen(_)
BitLen(n) == IF n = 0 THEN 0 ELSE 1 + BitLen(n \div 2)

F32Zero == <<0, 0>>

\* Round the exact value (m + s) * 2^e, 0 <= s < 1 and s > 0 iff sticky,
\* to an f32.  m < 2^31; when m has at most 24 bits sticky is FALSE.
F32Round(m, e, sticky) ==
    IF m = 0 THEN F32Zero
    ELSE LET nb == BitLen(m) IN
         IF nb <= 24 THEN <<m * Pow2(24 - nb), e - (24 - nb)>>
         ELSE LET s    == nb - 24
                  q    == m \div Pow2(s)
                  r    == m % Pow2(s)
                  half == Pow2(s - 1)
                  up   == r > half \/ (r = half /\ (sticky \/ q % 2 = 1))
                  q2   == IF up THEN q + 1 ELSE q
              IN IF q2 = Pow2(24) THEN <<Pow2(23), e + s + 1>>
                                  ELSE <<q2, e + s>>

\* `n as f32` for a u8 (exact).
F32FromU8(n) == F32Round(n, 0, FALSE)

\* floor(rem * 2^bits / d) and the remainder, for rem < d < 2^24.
RECURSIVE LongDiv(_, _, _, _)
LongDiv(rem, d, bits, acc) ==
    IF bits = 0 THEN <<acc, rem>>
    ELSE IF 2 * rem >= d THEN LongDiv(2 * rem - d, d, bits - 1, 2 * acc + 1)
                         ELSE LongDiv(2 * rem, d, bits - 1, 2 * acc)

\* a / b, b # 0.
F32Div(a, b) ==
    IF a[1] = 0 THEN F32Zero
    ELSE LET first == IF a[1] >= b[1] THEN 1 ELSE 0
             rem0  == IF a[1] >= b[1] THEN a[1] - b[1] ELSE a[1]
             qr    == LongDiv(rem0, b[1], 26, first)
         IN F32Round(qr[1], a[2] - b[2] - 26, qr[2] # 0)

\* a * b.
F32Mul(a, b) ==
    IF a[1] = 0 \/ b[1] = 0 THEN F32Zero
    ELSE LET ah   == a[1] \div 4096
             al   == a[1] % 4096
             bh   == b[1] \div 4096
             bl   == b[1] % 4096
             lo   == al * bl
             mid  == ah * bl + al * bh + (lo \div 4096)
             hi   == ah * bh + (mid \div 4096)
             lo0  == lo % 4096
             mid0 == mid % 4096
         IN F32Round(hi * 16 + (mid0 \div 256),
                     a[2] + b[2] + 20,
                     (mid0 % 256 # 0) \/ (lo0 # 0))

\* The mantissa of the smaller operand aligned to the larger one's exponent
\* with three guard bits: <<mantissa, sticky>>.
F32Align(m, d) ==
    IF d <= 3 THEN <<m * Pow2(3 - d), FALSE>>
    ELSE IF d > 27 THEN <<0, TRUE>>
    ELSE <<m \div Pow2(d - 3), m % Pow2(d - 3) # 0>>

\* a + b.
F32Add(a, b) ==
    IF a[1] = 0 THEN b
    ELSE IF b[1] = 0 THEN a
    ELSE LET x  == IF a[2] >= b[2] THEN a ELSE b
             y  == IF a[2] >= b[2] THEN b ELSE a
             ys == F32Align(y[1], x[2] - y[2])
         IN F32Round(x[1] * 8 + ys[1], x[2] - 3, ys[2])

\* a - b for a >= b >= 0.
F32Sub(a, b) ==
    IF b[1] = 0 THEN a
    ELSE LET ys == F32Align(b[1], a[2] - b[2])
         IN F32Round(a[1] * 8 - ys[1] - (IF ys[2] THEN 1 ELSE 0), a[2] - 3, ys[2])

\* A cast that rounds to nearest instead of truncating.
F32AsU8Rounding(x) ==
    IF x[1] = 0 THEN 0
    ELSE IF x[2] >= 0 THEN 255
    ELSE IF x[2] < -24 THEN 0
    ELSE LET t == (x[1] + Pow2(-x[2] - 1)) \div Pow2(-x[2]) IN IF t > 255 THEN 255 ELSE t

\* `x as u8`: truncation towards zero, saturating at 255.
F32AsU8(x) ==
    IF x[1] = 0 THEN 0
    ELSE IF x[2] >= 0 THEN 255
    ELSE IF x[2] < -23 THEN 0
    ELSE LET t == x[1] \div Pow2(-x[2]) IN IF t > 255 THEN 255 ELSE t

(***************************************************************************)
(* Unsigned integers.  A u32 or usize v is written in two's complement: v  *)
(* itself when it is below 2^31, and v - 2^32 (u32) or v - 2^64 (usize)    *)
(* when it is at the top of its range, so u32::MAX and usize::MAX are -1   *)
(* and usize::MAX - 1 is -2.  Every u32 has its number; a usize lies       *)
(* within 2^31 of one end of its range.  An addition or multiplication     *)
(* that overflows panics in a build with overflow checks (debug) and       *)
(* wraps in one without (release).                                         *)
(***************************************************************************)
UsizeMax == -1

\* a + b overflows usize, for a cell index b.
UsizeAddOverflows(a, b) == a < 0 /\ a + b >= 0

\* a >= b, unsigned.
UsizeGe(a, b) == IF (a < 0) = (b < 0) THEN a >= b ELSE a < 0

\* The four bytes of a u32, least significant first.
U32Bytes(v) ==
    LET w  == IF v >= 0 THEN v ELSE (v + 2147483647) + 1
        b4 == (w \div 16777216) + (IF v >= 0 THEN 0 ELSE 128)
    IN <<w % 256, (w \div 256) % 256, (w \div 65536) % 256, b4>>

\* The u32 of four bytes.
U32FromBytes(b) ==
    (IF b[4] < 128 THEN b[4] ELSE b[4] - 256) * 16777216
        + b[3] * 65536 + b[2] * 256 + b[1]

\* Byte k of the sum or product whose columns are cols, with the carry in.
RECURSIVE Carried(_, _, _, _)
Carried(cols, k, carry, acc) ==
    IF k > Len(cols) THEN <<acc, carry>>
    ELSE Carried(cols, k + 1, (cols[k] + carry) \div 256,
                 Append(acc, (cols[k] + carry) % 256))

\* a + b in u32: the wrapped sum and whether the addition overflowed.
U32Add(a, b) ==
    LET x == U32Bytes(a)
        y == U32Bytes(b)
        r == Carried([k \in 1..4 |-> x[k] + y[k]], 1, 0, <<>>)
    IN [overflow |-> r[2] # 0, value |-> U32FromBytes(r[1])]

\* a * b in u32: the wrapped product and whether the multiplication
\* overflowed.
U32Mul(a, b) ==
    LET x == U32Bytes(a)
        y == U32Bytes(b)
        Column(k) ==
            LET Term(i) == IF k + 1 - i >= 1 /\ k + 1 - i <= 4 THEN x[i] * y[k + 1 - i] ELSE 0
            IN Term(1) + Term(2) + Term(3) + Term(4)
        r == Carried([k \in 1..7 |-> Column(k)], 1, 0, <<>>)
    IN [overflow |-> r[2] # 0 \/ \E k \in 5..7 : r[1][k] # 0,
        value |-> U32FromBytes(SubSeq(r[1], 1, 4))]

\* a / 8 in u32, as a usize (below 2^29).
U32Div8(a) ==
    LET x == U32Bytes(a)
    IN x[4] * 2097152 + x[3] * 8192 + x[2] * 32 + x[1] \div 8

(***************************************************************************)
(* Color and pixel grids (src/src/shape.rs).  Option<Color> is a sequence  *)
(* of length 0 (None) or 1 (Some(c)).  Grid indices in the code are        *)
(* 0-based; sequences here are 1-based, so cell (x, y) is grid[y+1][x+1].  *)
(***************************************************************************)
Color(r, g, b, a) == [red |-> r, green |-> g, blue |-> b, alpha |-> a]

None == <<>>
Some(c) == <<c>>

\* impl MulAssign<f32> for Color: alpha is left alone.
ColorMulAssign(c, coeff) ==
    [c EXCEPT !.red   = F32AsU8(F32Mul(F32FromU8(c.red), coeff)),
              !.green = F32AsU8(F32Mul(F32FromU8(c.green), coeff)),
              !.blue  = F32AsU8(F32Mul(F32FromU8(c.blue), coeff))]

\* A product that scales alpha with the other channels.
ColorMulAllChannels(c, coeff) ==
    Color(F32AsU8(F32Mul(F32FromU8(c.red), coeff)),
          F32AsU8(F32Mul(F32FromU8(c.green), coeff)),
          F32AsU8(F32Mul(F32FromU8(c.blue), coeff)),
          F32AsU8(F32Mul(F32FromU8(c.alpha), coeff)))

\* impl Mul<f32> for Color: a new colour with the alpha of the operand.
ColorMul(c, coeff) ==
    Color(F32AsU8(F32Mul(F32FromU8(c.red), coeff)),
          F32AsU8(F32Mul(F32FromU8(c.green), coeff)),
          F32AsU8(F32Mul(F32FromU8(c.blue), coeff)),
          c.alpha)

(***************************************************************************)
(* Color::hex.  A colour string is a sequence of one-character strings,    *)
(* each standing for itself; "é" (U+00E9) takes two bytes in UTF-8, every  *)
(* other character used here one.  str::len() counts bytes.                *)
(***************************************************************************)
Ok(v) == <<"Ok", v>>
Err(e) == <<"Err", e>>
InvalidColorString(color_string, reason) == <<"InvalidColorString", color_string, reason>>

Utf8Len(c) == IF c = "é" THEN 2 ELSE 1

RECURSIVE ColorStringLen(_)
ColorStringLen(color_string) ==
    IF color_string = <<>> THEN 0
    ELSE Utf8Len(Head(color_string)) + ColorStringLen(Tail(color_string))

\* color_string.chars().next()
FirstChar(color_string) == IF color_string = <<>> THEN None ELSE Some(color_string[1])

\* char::is_ascii_hexdigit
IsAsciiHexdigit(c) ==
    c \in {"0", "1", "2", "3", "4", "5", "6", "7", "8", "9",
           "a", "b", "c", "d", "e", "f", "A", "B", "C", "D", "E", "F"}

\* char::to_digit(16) on a hex digit
ToDigit16(c) ==
    CASE c = "0" -> 0 [] c = "1" -> 1 [] c = "2" -> 2 [] c = "3" -> 3
      [] c = "4" -> 4 [] c = "5" -> 5 [] c = "6" -> 6 [] c = "7" -> 7
      [] c = "8" -> 8 [] c = "9" -> 9
      [] c \in {"a", "A"} -> 10 [] c \in {"b", "B"} -> 11
      [] c \in {"c", "C"} -> 12 [] c \in {"d", "D"} -> 13
      [] c \in {"e", "E"} -> 14 [] c \in {"f", "F"} -> 15

\* u8::from_str_radix(&color_string[from..to], 16).unwrap(), reached only
\* when every character is one byte, so byte `from` is character from + 1.
RECURSIVE U8FromStrRadix16(_, _, _, _)
U8FromStrRadix16(color_string, from, to, acc) ==
    IF from >= to THEN acc
    ELSE U8FromStrRadix16(color_string, from + 1, to,
                          acc * 16 + ToDigit16(color_string[from + 1]))

\* The same with the marker tested before the length.
ColorHexMarkerFirst(color_string) ==
    IF FirstChar(color_string) # Some("#")
    THEN Err(InvalidColorString(color_string, "first char must be #"))
    ELSE IF ColorStringLen(color_string) # 7 /\ ColorStringLen(color_string) # 9
    THEN Err(InvalidColorString(color_string, "length must be 7 or 9"))
    ELSE IF ~(\A i \in 2..Len(color_string) : IsAsciiHexdigit(color_string[i]))
    THEN Err(InvalidColorString(color_string, "all characters but first must be hex"))
    ELSE Ok(Color(U8FromStrRadix16(color_string, 1, 3, 0),
                  U8FromStrRadix16(color_string, 3, 5, 0),
                  U8FromStrRadix16(color_string, 5, 7, 0),
                  IF ColorStringLen(color_string) = 9
                  THEN U8FromStrRadix16(color_string, 7, 9, 0)
                  ELSE 255))

\* Color::hex
ColorHex(color_string) ==
    IF ColorStringLen(color_string) # 7 /\ ColorStringLen(color_string) # 9
    THEN Err(InvalidColorString(color_string, "length must be 7 or 9"))
    ELSE IF FirstChar(color_string) # Some("#")
    THEN Err(InvalidColorString(color_string, "first char must be #"))
    ELSE IF ~(\A i \in 2..Len(color_string) : IsAsciiHexdigit(color_string[i]))
    THEN Err(InvalidColorString(color_string, "all characters but first must be hex"))
    ELSE Ok(Color(U8FromStrRadix16(color_string, 1, 3, 0),
                  U8FromStrRadix16(color_string, 3, 5, 0),
                  U8FromStrRadix16(color_string, 5, 7, 0),
                  IF ColorStringLen(color_string) = 9
                  THEN U8FromStrRadix16(color_string, 7, 9, 0)
                  ELSE 255))

\* vec![vec![cell; w]; h]
Filled(w, h, cell) == [y \in 1..h |-> [x \in 1..w |-> cell]]

(***************************************************************************)
(* Rectangle::render.  `||` short-circuits, so `self.width -               *)
(* self.border_width` is evaluated only when x >= border_width, and        *)
(* `self.height - self.border_width` only when, further, x < width -       *)
(* border_width and y >= border_width.  A usize subtraction a - b with     *)
(* a < b panics in a debug build and wraps to 2^64 + a - b in a release    *)
(* build; every x and y compared with it here is below 2^64 - b, so the    *)
(* wrapped comparison `x >= a - b` is false.                               *)
(***************************************************************************)
UsizeSubOverflows(a, b) == a < b

\* The comparison with `>` in place of `>=`.
GeUsizeSubStrict(x, a, b) == IF UsizeSubOverflows(a, b) THEN FALSE ELSE x > a - b

GeUsizeSub(x, a, b) == IF UsizeSubOverflows(a, b) THEN FALSE ELSE x >= a - b

\* Does computing cell (x, y) evaluate a subtraction that overflows?
RectangleCellOverflows(r, x, y) ==
    /\ ~(x < r.border_width)
    /\ \/ UsizeSubOverflows(r.width, r.border_width)
       \/ /\ ~GeUsizeSub(x, r.width, r.border_width)
          /\ ~(y < r.border_width)
          /\ UsizeSubOverflows(r.height, r.border_width)

RectangleCell(r, x, y) ==
    IF \/ x < r.border_width
       \/ GeUsizeSub(x, r.width, r.border_width)
       \/ y < r.border_width
       \/ GeUsizeSub(y, r.height, r.border_width)
    THEN r.border_color
    ELSE r.fill_color

RectanglePanics(r) ==
    \E y \in 0..(r.height - 1), x \in 0..(r.width - 1) : RectangleCellOverflows(r, x, y)

RectangleRender(r) ==
    [y \in 1..r.height |-> [x \in 1..r.width |-> RectangleCell(r, x - 1, y - 1)]]

\* Image::render: a decoded pixel with alpha 0 is None.
ImagePixel(rgba) == IF rgba.alpha = 0 THEN None ELSE Some(rgba)

ImageRender(img) ==
    [y \in 1..Len(img.image) |->
        [x \in 1..Len(img.image[y]) |-> ImagePixel(img.image[y][x])]]

\* Shape::render, dispatched on the concrete type behind `dyn Shape`.
\* A shape of type "Grid" is any other implementor of the trait, given by the
\* grid its render returns.
ShapeRender(s) ==
    IF s.type = "Rectangle" THEN RectangleRender(s)
    ELSE IF s.type = "Image" THEN ImageRender(s)
    ELSE s.grid

\* Shape::at / PositionedShape::new
At(s, x, y) == [x |-> x, y |-> y, shape |-> s]

(***************************************************************************)
(* Compositor::render (src/src/compositor.rs).                             *)
(***************************************************************************)
\* A blend that gives the result the source's alpha instead of 255.
BlendSourceAlpha(color, prev) ==
    LET opacity     == F32Div(F32FromU8(color.alpha), F32FromU8(255))
        rev_opacity == F32Sub(F32FromU8(1), opacity)
        Channel(c, p) ==
            F32AsU8(F32Add(F32Mul(F32FromU8(c), opacity),
                           F32Mul(F32FromU8(p), rev_opacity)))
    IN Color(Channel(color.red, prev.red),
             Channel(color.green, prev.green),
             Channel(color.blue, prev.blue),
             color.alpha)

\* The blend step: `color` is the source cell, `prev` the destination cell.
Blend(color, prev) ==
    LET opacity     == F32Div(F32FromU8(color.alpha), F32FromU8(255))
        rev_opacity == F32Sub(F32FromU8(1), opacity)
        prev_color  ==
            IF prev.alpha # 255
            THEN [ColorMulAssign(prev, F32Div(F32FromU8(prev.alpha), F32FromU8(255)))
                    EXCEPT !.alpha = 255]
            ELSE prev
        Channel(c, p) ==
            F32AsU8(F32Add(F32Mul(F32FromU8(c), opacity),
                           F32Mul(F32FromU8(p), rev_opacity)))
    IN Color(Channel(color.red, prev_color.red),
             Channel(color.green, prev_color.green),
             Channel(color.blue, prev_color.blue),
             255)

\* `shape.x + x` in usize, wrapped; x is a cell index, far below 2^31.
RealX(ps, x) == ps.x + x

\* `shape.y + y` in usize, wrapped.
RealY(ps, y) == ps.y + y

\* One of the two additions overflows usize.
RealOverflows(ps, x, y) == UsizeAddOverflows(ps.x, x) \/ UsizeAddOverflows(ps.y, y)

\* The clip test of the inner loop, an unsigned comparison.
Clipped(result, real_x, real_y) ==
    UsizeGe(real_y, Len(result)) \/ UsizeGe(real_x, Len(result[real_y + 1]))

\* The body of the loop over one source cell.  st.grid is `result`; a build
\* with overflow checks panics when a target coordinate overflows, and a
\* panic ends the render.
RenderCell(st, ps, color, x, y) ==
    LET result == st.grid
        real_x == RealX(ps, x)
        real_y == RealY(ps, y)
    IN IF st.panic THEN st
       ELSE IF st.overflow_checks /\ RealOverflows(ps, x, y)
       THEN [st EXCEPT !.panic = TRUE]
       ELSE IF Clipped(result, real_x, real_y) THEN st
       ELSE IF color # None
            THEN [st EXCEPT !.grid[real_y + 1][real_x + 1] =
                               Some(Blend(color[1], result[real_y + 1][real_x + 1][1]))]
            ELSE st

RECURSIVE RenderRow(_, _, _, _, _)
RenderRow(st, ps, row, y, x) ==
    IF x >= Len(row) THEN st
    ELSE RenderRow(RenderCell(st, ps, row[x + 1], x, y), ps, row, y, x + 1)

RECURSIVE RenderRows(_, _, _, _)
RenderRows(st, ps, grid, y) ==
    IF y >= Len(grid) THEN st
    ELSE RenderRows(RenderRow(st, ps, grid[y + 1], y, 0), ps, grid, y + 1)

\* The loop over self.shapes run newest first.
RECURSIVE RenderShapesNewestFirst(_, _, _)
RenderShapesNewestFirst(st, shapes, i) ==
    IF i > Len(shapes) THEN st
    ELSE LET ps == shapes[Len(shapes) + 1 - i][2]
         IN RenderShapesNewestFirst(RenderRows(st, ps, ShapeRender(ps.shape), 0),
                                    shapes, i + 1)

\* The loop over self.shapes, oldest first.
RECURSIVE RenderShapes(_, _, _)
RenderShapes(st, shapes, i) ==
    IF i > Len(shapes) THEN st
    ELSE RenderShapes(RenderRows(st, shapes[i][2], ShapeRender(shapes[i][2].shape), 0),
                      shapes, i + 1)

\* Compositor::render in a build with or without overflow checks: whether it
\* panicked, and the grid (as far as it was drawn, when it panicked).
CompositorRender(c, overflow_checks) ==
    RenderShapes([overflow_checks |-> overflow_checks, panic |-> FALSE,
                  grid |-> Filled(c.width, c.height, Some(c.background))],
                 c.shapes, 1)

\* Some cell of some child has an overflowing `shape.x + x` or `shape.y + y`.
\* Without one, the builds with and without overflow checks render alike.
RenderOverflows(c) ==
    \E i \in 1..Len(c.shapes) :
        LET ps   == c.shapes[i][2]
            grid == ShapeRender(ps.shape)
        IN \E y \in 0..Len(grid) - 1 :
              \E x \in 0..Len(grid[y + 1]) - 1 : RealOverflows(ps, x, y)

(***************************************************************************)
(* Caption (src/src/text.rs).  A text is a sequence of characters.  "a" is *)
(* an ASCII letter, "e" stands for a two-byte letter such as U+00E9, " "   *)
(* is a space and "\n" a line feed.  Offsets are byte offsets into the     *)
(* UTF-8 string, as LineBreakIterator yields them and as `&self.text[a..b]`*)
(* takes them.                                                             *)
(***************************************************************************)
Chars == {"a", "e", " ", "\n"}

\* char::len_utf8
LenUtf8(c) == IF c = "e" THEN 2 ELSE 1

\* char::is_whitespace
IsWhitespace(c) == c \in {" ", "\n"}

\* str::len of the first n characters of text.
RECURSIVE ByteOffset(_, _)
ByteOffset(text, n) ==
    IF n = 0 THEN 0 ELSE ByteOffset(text, n - 1) + LenUtf8(text[n])

StrLen(text) == ByteOffset(text, Len(text))

\* str::is_char_boundary
IsCharBoundary(text, offset) ==
    \E n \in 0..Len(text) : ByteOffset(text, n) = offset

\* `&text[from..to]` panics unless from <= to and both are char boundaries.
SlicePanics(text, from, to) ==
    ~(from <= to /\ IsCharBoundary(text, from) /\ IsCharBoundary(text, to))

\* `&text[from..to]` when it does not panic.
StrSlice(text, from, to) ==
    LET first == CHOOSE n \in 0..Len(text) : ByteOffset(text, n) = from
        last  == CHOOSE n \in 0..Len(text) : ByteOffset(text, n) = to
    IN SubSeq(text, first + 1, last)

\* text.chars().nth(n)
CharsNth(text, n) == IF n < Len(text) THEN Some(text[n + 1]) ELSE None

(***************************************************************************)
(* xi_unicode::LineBreakIterator over these characters (UAX #14): a        *)
(* mandatory break after a line feed and at the end of the text, a break   *)
(* opportunity after a run of spaces that a letter follows, none between   *)
(* letters, none before a space or a line feed, none for the empty text.   *)
(* Items are <<offset, hard_break>>.                                       *)
(***************************************************************************)
RECURSIVE LineBreaksFrom(_, _)
LineBreaksFrom(text, n) ==
    IF n > Len(text) THEN <<>>
    ELSE LET here == <<ByteOffset(text, n), n = Len(text) \/ text[n] = "\n">>
             rest == LineBreaksFrom(text, n + 1)
         IN IF n = Len(text) \/ text[n] = "\n"
               \/ (text[n] = " " /\ ~IsWhitespace(text[n + 1]))
            THEN <<here>> \o rest
            ELSE rest

LineBreakIterator(text) == LineBreaksFrom(text, 1)

(***************************************************************************)
(* The font (rusttype) as the model sees it: every letter and the space    *)
(* have a glyph whose advance is font.advance pixels at the caption's      *)
(* size, a line feed has none; a letter's glyph covers its advance box     *)
(* ("a" fully, "e" by half), the space's glyph has no bounding box.        *)
(***************************************************************************)
HasGlyph(c) == c # "\n"

\* Caption::layout: the characters that have a glyph.
Layout(text) == SelectSeq(text, HasGlyph)

\* Caption::width of the laid-out glyphs, in pixels (an integer here).
GlyphsWidth(cap, glyphs) == Len(glyphs) * cap.font.advance

\* Caption::str_width
StrWidth(cap, text) == GlyphsWidth(cap, Layout(text))

\* The coverage `v` glyph.draw reports for a pixel of the glyph, as an f32.
Coverage(c) == IF c = "a" THEN F32FromU8(1) ELSE F32Div(F32FromU8(1), F32FromU8(2))

\* Caption::split_text_at_indices: <<panicked, lines>>.
RECURSIVE SplitAt(_, _, _, _, _)
SplitAt(text, indices, i, last_split, result) ==
    IF i > Len(indices)
    THEN IF SlicePanics(text, last_split, StrLen(text)) THEN <<TRUE, result>>
         ELSE <<FALSE, Append(result, StrSlice(text, last_split, StrLen(text)))>>
    ELSE IF SlicePanics(text, last_split, indices[i]) THEN <<TRUE, result>>
    ELSE SplitAt(text, indices, i + 1, indices[i],
                 Append(result, StrSlice(text, last_split, indices[i])))

SplitTextAtIndices(text, indices) == SplitAt(text, indices, 1, 0, <<>>)

\* One iteration of the loop of Caption::split_text over an item of the
\* line break iterator.  st.prev_break is an Option<usize>.
SplitStep(cap, st, item) ==
    LET offset     == item[1]
        hard_break == item[2]
        too_wide   == /\ cap.max_width # None
                      /\ StrWidth(cap, StrSlice(cap.text, st.prev_offset, offset))
                            > cap.max_width[1]
        wrap       == too_wide /\ st.prev_break # None
        prev_break == st.prev_break[1]
        nth        == CharsNth(cap.text, prev_break - 1)
        stripped   == IF IsWhitespace(nth[1]) THEN prev_break - 1 ELSE prev_break
        wrapped    == IF wrap
                      THEN [st EXCEPT !.prev_offset = prev_break,
                                      !.where_to_break = Append(@, stripped)]
                      ELSE st
        broken     == IF hard_break
                      THEN [wrapped EXCEPT !.where_to_break = Append(@, offset),
                                           !.prev_offset = offset]
                      ELSE wrapped
    IN IF st.panic THEN st
       ELSE IF wrap /\ nth = None THEN [st EXCEPT !.panic = TRUE]
       ELSE [broken EXCEPT !.prev_break = Some(offset)]

RECURSIVE SplitLoop(_, _, _, _)
SplitLoop(cap, st, items, i) ==
    IF i > Len(items) THEN st
    ELSE SplitLoop(cap, SplitStep(cap, st, items[i]), items, i + 1)

\* The break offsets split_text collects, and whether it panicked on the way.
WhereToBreak(cap) ==
    SplitLoop(cap,
              [prev_offset |-> 0, prev_break |-> None, where_to_break |-> <<>>,
               panic |-> FALSE],
              LineBreakIterator(cap.text), 1)

\* Caption::split_text: [panic, where_to_break, lines].
SplitText(cap) ==
    LET st    == WhereToBreak(cap)
        split == SplitTextAtIndices(cap.text, st.where_to_break)
    IN IF st.panic
       THEN [panic |-> TRUE, where_to_break |-> st.where_to_break, lines |-> <<>>]
       ELSE [panic |-> split[1], where_to_break |-> st.where_to_break,
             lines |-> IF split[1] THEN <<>> ELSE split[2]]

\* The cell glyph.draw writes for a pixel of character c.
GlyphCell(cap, c) ==
    IF c = " " THEN None
    ELSE Some([cap.color EXCEPT
                 !.alpha = F32AsU8(F32Mul(F32FromU8(cap.color.alpha), Coverage(c)))])

\* Caption::render_line
RenderLine(cap, line) ==
    LET glyphs == Layout(line)
        width  == GlyphsWidth(cap, glyphs)
    IN [y \in 1..cap.size |->
          [x \in 1..width |-> GlyphCell(cap, glyphs[((x - 1) \div cap.font.advance) + 1])]]

Min(a, b) == IF a <= b THEN a ELSE b

Max(a, b) == IF a >= b THEN a ELSE b

\* A resize that pads but never truncates.
ResizePadOnly(row, width) ==
    [x \in 1..Max(width, Len(row)) |-> IF x <= Len(row) THEN row[x] ELSE None]

\* Vec::resize(width, None)
Resize(row, width) ==
    [x \in 1..width |-> IF x <= Len(row) THEN row[x] ELSE None]

\* A right alignment that keeps the last cells of a row that is too wide.
AlignRightTrailing(row, width) ==
    LET row_len == Min(width, Len(row))
    IN [x \in 1..width |->
          IF x > width - row_len THEN row[Len(row) - width + x] ELSE None]

\* The Right arm of align_line, for one row.
AlignRight(row, width) ==
    LET row_len == Min(width, Len(row))
    IN [x \in 1..width |->
          IF x > width - row_len THEN row[x - (width - row_len)] ELSE None]

\* The Center arm of align_line, for one row.
AlignCenter(row, width) ==
    LET row_len == Min(width, Len(row))
        offset  == (width - row_len) \div 2
    IN [x \in 1..width |->
          IF x > offset /\ x <= row_len + offset THEN row[x - offset] ELSE None]

\* Caption::align_line
AlignLine(cap, line, width) ==
    [y \in 1..Len(line) |->
        IF cap.alignment = "Left" THEN Resize(line[y], width)
        ELSE IF cap.alignment = "Right" THEN AlignRight(line[y], width)
        ELSE AlignCenter(line[y], width)]

\* rendered_line after `for _ in 0..line_gap { rendered_line.push(vec![None]) }`
WithGap(cap, rendered_line) ==
    rendered_line \o [g \in 1..cap.font.line_gap |-> <<None>>]

\* max_real_width: the widest row over the rendered lines, None if no row.
RECURSIVE MaxRealWidth(_, _, _)
MaxRealWidth(rendered, i, acc) ==
    IF i > Len(rendered) THEN acc
    ELSE LET line == rendered[i]
         IN IF Len(line) = 0 THEN MaxRealWidth(rendered, i + 1, acc)
            ELSE LET w == Len(line[1])
                 IN MaxRealWidth(rendered, i + 1,
                                 IF acc = None THEN Some(w) ELSE Some(Max(acc[1], w)))

RECURSIVE Flatten(_, _)
Flatten(lines, i) ==
    IF i > Len(lines) THEN <<>> ELSE lines[i] \o Flatten(lines, i + 1)

\* Caption::render: [panic, grid].
CaptionRender(cap) ==
    LET split    == SplitText(cap)
        rendered == [i \in 1..Len(split.lines) |-> RenderLine(cap, split.lines[i])]
        max_real == MaxRealWidth(rendered, 1, None)
        width    == IF cap.max_width # None THEN cap.max_width[1]
                    ELSE IF max_real = None THEN 0 ELSE max_real[1]
        lines    == [i \in 1..Len(rendered) |->
                        AlignLine(cap, WithGap(cap, rendered[i]), width)]
    IN IF split.panic THEN [panic |-> TRUE, grid |-> <<>>]
       ELSE [panic |-> FALSE, grid |-> Flatten(lines, 1)]

(***************************************************************************)
(* Compositor::add, get_positioned and get.  An entry of self.shapes is    *)
(* <<name, positioned shape>>; a returned reference is the 1-based index   *)
(* of the entry it points to, 0 for None.                                  *)
(***************************************************************************)
CompositorNew(w, h, bg) ==
    [type |-> "Compositor", width |-> w, height |-> h, background |-> bg, shapes |-> <<>>]

CompositorAdd(c, name, ps) == [c EXCEPT !.shapes = Append(@, <<name, ps>>)]

\* A lookup that returns the last entry whose name matches.
RECURSIVE LastNamed(_, _, _)
LastNamed(shapes, name, i) ==
    IF i > Len(shapes) THEN 0
    ELSE LET later == LastNamed(shapes, name, i + 1)
         IN IF later # 0 THEN later ELSE IF shapes[i][1] = name THEN i ELSE 0

\* iter_mut().filter_map(..).next(): the first entry whose name matches.
RECURSIVE FirstNamed(_, _, _)
FirstNamed(shapes, name, i) ==
    IF i > Len(shapes) THEN 0
    ELSE IF shapes[i][1] = name THEN i
    ELSE FirstNamed(shapes, name, i + 1)

GetPositioned(c, name) == FirstNamed(c.shapes, name, 1)

\* PositionedShape::inner_mut::<T>: the downcast succeeds iff the type is T.
InnerMut(ps, T) == ps.shape.type = T

CompositorGet(c, name, T) ==
    LET i == GetPositioned(c, name)
    IN IF i = 0 THEN 0 ELSE IF InnerMut(c.shapes[i][2], T) THEN i ELSE 0

(***************************************************************************)
(* Framebuffer (src/src/lib.rs).  `screen` is the internal buffer and      *)
(* `framebuffer` the mapped device, both sequences of bytes, byte n of the *)
(* code at place n + 1.  `overflow_checks` tells whether the build panics  *)
(* on integer overflow (debug) or wraps (release).                         *)
(***************************************************************************)
\* `self.xres * self.yres * self.bits_per_pixel` overflows u32.
OverallSizeOverflows(screen_info) ==
    LET pixels == U32Mul(screen_info.xres, screen_info.yres)
    IN pixels.overflow \/ U32Mul(pixels.value, screen_info.bits_per_pixel).overflow

\* fb_var_screeninfo::overall_size, the product wrapped to 32 bits.
OverallSize(screen_info) ==
    U32Div8(U32Mul(U32Mul(screen_info.xres, screen_info.yres).value,
                   screen_info.bits_per_pixel).value)

\* Framebuffer::open on what /dev/fb0 is: `file` is "ok" or the kind of the
\* error of opening it, `ioctl` whether FBIOGET_VSCREENINFO succeeds, `mmap`
\* "ok" or the kind of the error of mapping it, `contents` the byte the
\* device memory is filled with.  A mapping of length 0 is refused.
FramebufferOpen(device, overflow_checks) ==
    LET screen_info == device.screen_info
        Panic       == [panic |-> TRUE, result |-> <<>>]
        Returns(r)  == [panic |-> FALSE, result |-> r]
    IN IF device.file # "ok" THEN Returns(Err(device.file))
       ELSE IF ~device.ioctl THEN Panic
       ELSE IF screen_info.bits_per_pixel # 32 THEN Panic
       ELSE IF overflow_checks /\ OverallSizeOverflows(screen_info) THEN Panic
       ELSE IF OverallSize(screen_info) = 0 THEN Returns(Err("InvalidInput"))
       ELSE IF device.mmap # "ok" THEN Returns(Err(device.mmap))
       ELSE Returns(Ok([type |-> "Framebuffer",
                        screen |-> [n \in 1..OverallSize(screen_info) |-> 0],
                        screen_info |-> screen_info,
                        framebuffer |-> [n \in 1..OverallSize(screen_info) |->
                                            device.contents],
                        overflow_checks |-> overflow_checks]))

\* Bit i of the u8-sized value n.
Bit(n, i) == IF i > 7 THEN 0 ELSE (n \div Pow2(i)) % 2

\* `8 - field.length` or `<< field.offset` overflows: the field is longer
\* than 8 bits or its offset is 32 or more.
FieldOverflows(field) ==
    \/ field.length < 0 \/ field.length > 8
    \/ field.offset < 0 \/ field.offset >= 32

\* Bit j of `(channel as u32) >> (8 - field.length) << field.offset` with
\* wrapping arithmetic: 8 - length wraps and a shift takes its amount
\* modulo 32; the word has 32 bits.
FieldBit(channel, field, j) ==
    LET right   == (40 - (U32Bytes(field.length)[1] % 32)) % 32
        left    == U32Bytes(field.offset)[1] % 32
        shifted == IF right > 7 THEN 0 ELSE channel \div Pow2(right)
    IN IF j < left \/ j > 31 THEN 0 ELSE Bit(shifted, j - left)

\* Bit j of the pixel word: the fields or-ed together.
PixelBit(screen_info, color, j) ==
    IF \/ FieldBit(color.red, screen_info.red, j) = 1
       \/ FieldBit(color.green, screen_info.green, j) = 1
       \/ FieldBit(color.blue, screen_info.blue, j) = 1
       \/ FieldBit(color.alpha, screen_info.transp, j) = 1
    THEN 1 ELSE 0

\* pixel.to_ne_bytes() on a little-endian target: byte k holds bits 8k..8k+7.
ToNeBytes(screen_info, color) ==
    [k \in 1..4 |->
        LET b(i) == PixelBit(screen_info, color, 8 * (k - 1) + i)
        IN b(0) + 2 * b(1) + 4 * b(2) + 8 * b(3)
           + 16 * b(4) + 32 * b(5) + 64 * b(6) + 128 * b(7)]

\* `(y * xres + x) * 4` overflows u32.
PixelPosOverflows(fb, x, y) ==
    LET row == U32Mul(y, fb.screen_info.xres)
        at  == U32Add(row.value, x)
    IN row.overflow \/ at.overflow \/ U32Mul(at.value, 4).overflow

\* `(y * self.screen_info.xres + x) * 4`, wrapped to 32 bits.
PixelPos(fb, x, y) ==
    U32Mul(U32Add(U32Mul(y, fb.screen_info.xres).value, x).value, 4).value

\* `self.screen[pixel_pos..pixel_pos + 4]` is within the buffer; a pixel_pos
\* of 2^31 or more (written as a negative number) is past every buffer.
SliceFits(fb, pixel_pos) == pixel_pos >= 0 /\ pixel_pos <= Len(fb.screen) - 4

\* A step of set_pixel overflows: the pixel position or a field.
SetPixelOverflows(fb, x, y) ==
    \/ PixelPosOverflows(fb, x, y)
    \/ FieldOverflows(fb.screen_info.red)
    \/ FieldOverflows(fb.screen_info.green)
    \/ FieldOverflows(fb.screen_info.blue)
    \/ FieldOverflows(fb.screen_info.transp)

\* Framebuffer::set_pixel: the framebuffer afterwards, and whether the call
\* panicked (on overflow in a build that checks it, or on the slice).
FramebufferSetPixel(fb, x, y, color) ==
    LET pixel_pos == PixelPos(fb, x, y)
        bytes     == ToNeBytes(fb.screen_info, color)
    IN IF fb.overflow_checks /\ SetPixelOverflows(fb, x, y)
       THEN [panic |-> TRUE, fb |-> fb]
       ELSE IF ~SliceFits(fb, pixel_pos)
       THEN [panic |-> TRUE, fb |-> fb]
       ELSE [panic |-> FALSE,
             fb |-> [fb EXCEPT !.screen =
                        [n \in 1..Len(fb.screen) |->
                            IF n > pixel_pos /\ n <= pixel_pos + 4
                            THEN bytes[n - pixel_pos]
                            ELSE fb.screen[n]]]]

\* Framebuffer::draw, from cell inner_x of row inner_y on; the additions are
\* in u32, and a panic ends the draw, the pixels set before staying set.
RECURSIVE DrawFrom(_, _, _, _, _, _)
DrawFrom(fb, x, y, grid, inner_y, inner_x) ==
    IF inner_y >= Len(grid) THEN [panic |-> FALSE, fb |-> fb]
    ELSE IF inner_x >= Len(grid[inner_y + 1])
    THEN DrawFrom(fb, x, y, grid, inner_y + 1, 0)
    ELSE LET color == grid[inner_y + 1][inner_x + 1]
             to_x  == U32Add(x, inner_x)
             to_y  == U32Add(y, inner_y)
         IN IF color = None
            THEN DrawFrom(fb, x, y, grid, inner_y, inner_x + 1)
            ELSE IF fb.overflow_checks /\ (to_x.overflow \/ to_y.overflow)
            THEN [panic |-> TRUE, fb |-> fb]
            ELSE LET r == FramebufferSetPixel(fb, to_x.value, to_y.value, color[1])
                 IN IF r.panic THEN r
                    ELSE DrawFrom(r.fb, x, y, grid, inner_y, inner_x + 1)

FramebufferDraw(fb, x, y, shape) == DrawFrom(fb, x, y, ShapeRender(shape), 0, 0)

\* A flush in the wrong direction.
FramebufferFlushReversed(fb) == [fb EXCEPT !.screen = fb.framebuffer]

\* Framebuffer::flush
FramebufferFlush(fb) == [fb EXCEPT !.framebuffer = fb.screen]

(***************************************************************************)
(* Bounds of the model and the inputs the operations are tried on.         *)
(***************************************************************************)
MaxDim == 2
MaxShapes == 2
MaxRectDim == 3
MaxBorder == 2
MaxTextLen == 4
MaxWidth == 2

Red == Color(255, 0, 0, 255)
Green == Color(0, 255, 0, 255)
Grey == Color(10, 20, 30, 255)
Semi == Color(0, 128, 255, 128)
Clear == Color(40, 50, 60, 0)
Black == Color(0, 0, 0, 255)
SemiBackground == Color(200, 100, 50, 128)

Backgrounds == {Black, SemiBackground}

OptColors == {None, Some(Red), Some(Semi)}

Rectangle(w, h, bw, bc, fc) ==
    [type |-> "Rectangle", width |-> w, height |-> h, border_width |-> bw,
     border_color |-> bc, fill_color |-> fc]

Image(pixels) == [type |-> "Image", image |-> pixels]

\* The shapes added to a compositor: an opaque 2x2 frame that is all border,
\* a semi-transparent bar, an image with an opaque pixel and a fully
\* transparent one, and a dot whose colour has alpha 0.
ChildShapes ==
    { Rectangle(2, 2, 1, Some(Green), Some(Red)),
      Rectangle(2, 1, 0, None, Some(Semi)),
      Image(<< <<Grey, Clear>> >>),
      Rectangle(1, 1, 0, None, Some(Clear)) }

\* Where they are put: at the origin, one cell in (beyond the canvases of
\* width or height 1), or at the top of the usize range, where adding a cell
\* index overflows.
Offsets == {<<0, 0>>, <<1, 1>>, <<UsizeMax, UsizeMax>>}

Placed == {At(s, o[1], o[2]) : s \in ChildShapes, o \in Offsets}

Names == {"a", "b"}

ShapeTypes == {"Rectangle", "Image"}

Rectangles ==
    {Rectangle(w, h, bw, bc, fc) :
        w \in 0..MaxRectDim, h \in 0..MaxRectDim, bw \in 0..MaxBorder,
        bc \in OptColors, fc \in OptColors}

RECURSIVE Texts(_)
Texts(n) ==
    IF n = 0 THEN {<<>>}
    ELSE LET shorter == Texts(n - 1)
         IN shorter \cup {Append(t, c) : t \in {u \in shorter : Len(u) = n - 1}, c \in Chars}

Fonts == {[advance |-> 1, line_gap |-> 1]}

Captions ==
    {[type |-> "Caption", text |-> t, size |-> sz, font |-> f, color |-> Black,
      max_width |-> mw, alignment |-> al] :
        t \in Texts(MaxTextLen), sz \in {0, 1}, f \in Fonts,
        mw \in {None} \cup {Some(w) : w \in 0..MaxWidth},
        al \in {"Left", "Center", "Right"}}

\* Colour strings: "#" and up to MaxColorStringLen - 1 digits taken from four
\* digit pairs (further digits are "0"), with the first character and at most
\* one other character possibly replaced by a character that does not belong.
MaxColorStringLen == 9

DigitPairs == {<<"0", "0">>, <<"f", "F">>, <<"1", "a">>, <<"A", "9">>}

HexBodies == {p1 \o p2 \o p3 \o p4 : p1 \in DigitPairs, p2 \in DigitPairs,
                                      p3 \in DigitPairs, p4 \in DigitPairs}

WellFormed(n) ==
    IF n = 0 THEN {<<>>}
    ELSE {[i \in 1..n |-> IF i = 1 THEN "#" ELSE IF i <= 9 THEN b[i - 1] ELSE "0"] :
             b \in HexBodies}

Spoiled(str) ==
    IF str = <<>> THEN {str}
    ELSE LET firsts == {[str EXCEPT ![1] = c] : c \in {"#", "g", "é"}}
         IN firsts \cup {[t EXCEPT ![i] = c] :
                            t \in firsts, i \in 2..Len(str), c \in {"g", "é"}}

ColorStrings == UNION {Spoiled(str) : str \in UNION {WellFormed(n) : n \in 0..MaxColorStringLen}}

\* Colours to multiply and coefficients in [0, 1]: 0.0, 1.0 / 3.0, 0.5, 1.0.
Colors ==
    {Color(128, 128, 128, 128)} \cup
    {Color(v, 255 - v, (v + 128) % 256, 255) : v \in 0..255}

Half == F32Div(F32FromU8(1), F32FromU8(2))

Coeffs == {F32Zero, F32Div(F32FromU8(1), F32FromU8(3)), Half, F32FromU8(1)}

\* Screens: 2 x 2 pixels of 8:8:8:8 bits, 3 x 1 pixels of 5:6:5 bits with no
\* alpha field, 1 x 2 pixels of 10:10:10:2 bits; a screen of 16 bits per
\* pixel and one whose size in bits does not fit in 32 bits.  A run makes at
\* most MaxCalls calls on a framebuffer.
MaxCalls == 3

Field(offset, length) == [offset |-> offset, length |-> length]

ScreenInfos ==
    {[xres |-> 2, yres |-> 2, bits_per_pixel |-> 32, red |-> Field(16, 8),
      green |-> Field(8, 8), blue |-> Field(0, 8), transp |-> Field(24, 8)],
     [xres |-> 3, yres |-> 1, bits_per_pixel |-> 32, red |-> Field(11, 5),
      green |-> Field(5, 6), blue |-> Field(0, 5), transp |-> Field(0, 0)],
     [xres |-> 1, yres |-> 2, bits_per_pixel |-> 32, red |-> Field(20, 10),
      green |-> Field(10, 10), blue |-> Field(0, 10), transp |-> Field(30, 2)]}

UnusableScreenInfos ==
    {[xres |-> 3, yres |-> 1, bits_per_pixel |-> 16, red |-> Field(11, 5),
      green |-> Field(5, 6), blue |-> Field(0, 5), transp |-> Field(0, 0)],
     [xres |-> 16384, yres |-> 8192, bits_per_pixel |-> 32, red |-> Field(16, 8),
      green |-> Field(8, 8), blue |-> Field(0, 8), transp |-> Field(24, 8)]}

\* A framebuffer device that opens and maps, showing 255 in every byte before
\* the first flush.
Device(screen_info) ==
    [file |-> "ok", ioctl |-> TRUE, screen_info |-> screen_info, mmap |-> "ok",
     contents |-> 255]

\* What /dev/fb0 can be: a device with one of the screens, no file, a file
\* that may not be opened, a file that is no framebuffer, a device that
\* refuses the mapping.
Devices ==
    {Device(si) : si \in ScreenInfos \cup UnusableScreenInfos} \cup
    {[Device(si) EXCEPT !.file = kind] :
        si \in ScreenInfos, kind \in {"NotFound", "PermissionDenied"}} \cup
    {[Device(si) EXCEPT !.ioctl = FALSE] : si \in ScreenInfos} \cup
    {[Device(si) EXCEPT !.mmap = "InvalidInput"] : si \in ScreenInfos}

\* Targets: every pixel, one past each edge, and a column whose byte offset
\* does not fit in 32 bits.
FarColumn == Pow2(30)

Columns(fb) == 0..fb.screen_info.xres \cup {FarColumn}

Rows(fb) == 0..fb.screen_info.yres

\* Two rows, each with one transparent pixel.
Drawn == Image(<< <<Grey, Clear>>, <<Clear, Semi>> >>)

(***************************************************************************)
(* The state: the object under construction (a compositor, a rectangle, a  *)
(* caption, a colour string, a colour or a framebuffer; the others are     *)
(* absent) and what the last call returned.                                *)
(***************************************************************************)
VARIABLES compositor, rectangle, caption, color_string, color, framebuffer, out

vars == <<compositor, rectangle, caption, color_string, color, framebuffer, out>>

Absent == [type |-> "absent"]

\* The return value of a call: `grid` for a render, `index` for a lookup,
\* `lines` and `where_to_break` for split_text, `result` for Color::hex and
\* the colour product; `panic` when the call panicked.  `coeff`, `x`, `y` and
\* (for draw) `grid` record the arguments of the call, `calls` the number of
\* calls made on a framebuffer so far.
Returned(op) ==
    [op |-> op, panic |-> FALSE, grid |-> <<>>, index |-> 0, name |-> "", T |-> "",
     lines |-> <<>>, where_to_break |-> <<>>, result |-> <<>>, coeff |-> <<>>,
     x |-> 0, y |-> 0, calls |-> 0]

InitCompositor ==
    /\ compositor \in {CompositorNew(w, h, bg) :
                          w \in 0..MaxDim, h \in 0..MaxDim, bg \in Backgrounds}
    /\ rectangle = Absent
    /\ caption = Absent
    /\ color_string = Absent
    /\ color = Absent
    /\ framebuffer = Absent
    /\ out = Returned("new")

InitRectangle ==
    /\ compositor = Absent
    /\ rectangle \in Rectangles
    /\ caption = Absent
    /\ color_string = Absent
    /\ color = Absent
    /\ framebuffer = Absent
    /\ out = Returned("new")

InitCaption ==
    /\ compositor = Absent
    /\ rectangle = Absent
    /\ caption \in Captions
    /\ color_string = Absent
    /\ color = Absent
    /\ framebuffer = Absent
    /\ out = Returned("new")

Init == InitCompositor \/ InitRectangle \/ InitCaption

\* compositor.add(name, shape.at(x, y))
Add(name, ps) ==
    /\ compositor.type = "Compositor"
    /\ Len(compositor.shapes) < MaxShapes
    /\ compositor' = CompositorAdd(compositor, name, ps)
    /\ out' = Returned("add")
    /\ UNCHANGED <<rectangle, caption, color_string, color, framebuffer>>

\* compositor.render(), in a build with or without overflow checks; one
\* build stands for both when no addition overflows.
Render ==
    /\ compositor.type = "Compositor"
    /\ \E overflow_checks \in IF RenderOverflows(compositor) THEN BOOLEAN ELSE {FALSE} :
          \E r \in {CompositorRender(compositor, overflow_checks)} :
             out' = [Returned("render") EXCEPT !.panic = r.panic,
                                               !.grid = IF r.panic THEN <<>> ELSE r.grid]
    /\ UNCHANGED <<compositor, rectangle, caption, color_string, color, framebuffer>>

\* compositor.get_positioned(name)
LookupPositioned(name) ==
    /\ compositor.type = "Compositor"
    /\ out' = [Returned("get_positioned") EXCEPT !.name = name,
                                                  !.index = GetPositioned(compositor, name)]
    /\ UNCHANGED <<compositor, rectangle, caption, color_string, color, framebuffer>>

\* compositor.get::<T>(name)
Lookup(name, T) ==
    /\ compositor.type = "Compositor"
    /\ out' = [Returned("get") EXCEPT !.name = name, !.T = T,
                                       !.index = CompositorGet(compositor, name, T)]
    /\ UNCHANGED <<compositor, rectangle, caption, color_string, color, framebuffer>>

\* rectangle.render()
RenderRectangle ==
    /\ rectangle.type = "Rectangle"
    /\ out' = [Returned("rectangle_render") EXCEPT !.panic = RectanglePanics(rectangle),
                                                    !.grid = RectangleRender(rectangle)]
    /\ UNCHANGED <<compositor, rectangle, caption, color_string, color, framebuffer>>

\* caption.split_text()
SplitCaption ==
    /\ caption.type = "Caption"
    /\ LET r == SplitText(caption)
       IN out' = [Returned("split_text") EXCEPT !.panic = r.panic, !.lines = r.lines,
                                                 !.where_to_break = r.where_to_break]
    /\ UNCHANGED <<compositor, rectangle, caption, color_string, color, framebuffer>>

\* caption.render()
RenderCaption ==
    /\ caption.type = "Caption"
    /\ LET r == CaptionRender(caption)
       IN out' = [Returned("caption_render") EXCEPT !.panic = r.panic, !.grid = r.grid]
    /\ UNCHANGED <<compositor, rectangle, caption, color_string, color, framebuffer>>

AddPlaced == \E ps \in Placed : Add("a", ps)

Next ==
    \/ AddPlaced
    \/ Render
    \/ RenderRectangle
    \/ SplitCaption
    \/ RenderCaption

Spec == Init /\ [][Next]_vars

\* Color::hex(color_string)
InitColorString ==
    /\ compositor = Absent
    /\ rectangle = Absent
    /\ caption = Absent
    /\ color_string \in {[type |-> "str", chars |-> str] : str \in ColorStrings}
    /\ color = Absent
    /\ framebuffer = Absent
    /\ out = Returned("new")

Hex ==
    /\ color_string.type = "str"
    /\ out' = [Returned("hex") EXCEPT !.result = ColorHex(color_string.chars)]
    /\ UNCHANGED <<compositor, rectangle, caption, color_string, color, framebuffer>>

NextColorString == Hex

SpecColorString == InitColorString /\ [][NextColorString]_vars

\* color * coeff and color *= coeff
InitColor ==
    /\ compositor = Absent
    /\ rectangle = Absent
    /\ caption = Absent
    /\ color_string = Absent
    /\ color \in Colors
    /\ framebuffer = Absent
    /\ out = Returned("new")

Mul ==
    \E coeff \in Coeffs :
        /\ color # Absent
        /\ out' = [Returned("mul") EXCEPT !.coeff = coeff, !.result = ColorMul(color, coeff)]
        /\ UNCHANGED <<compositor, rectangle, caption, color_string, color, framebuffer>>

MulAssign ==
    \E coeff \in Coeffs :
        /\ color # Absent
        /\ color' = ColorMulAssign(color, coeff)
        /\ out' = [Returned("mul_assign") EXCEPT !.coeff = coeff]
        /\ UNCHANGED <<compositor, rectangle, caption, color_string, framebuffer>>

NextColor == Mul \/ MulAssign

SpecColor == InitColor /\ [][NextColor]_vars

\* Framebuffer::open, then set_pixel, draw and flush; a panic ends the run,
\* and there is no framebuffer when open failed.
InitFramebuffer ==
    /\ compositor = Absent
    /\ rectangle = Absent
    /\ caption = Absent
    /\ color_string = Absent
    /\ color = Absent
    /\ \E device \in Devices, overflow_checks \in BOOLEAN :
          LET r      == FramebufferOpen(device, overflow_checks)
              opened == ~r.panic /\ r.result[1] = "Ok"
          IN /\ framebuffer = IF opened THEN r.result[2] ELSE Absent
             /\ out = [Returned("open") EXCEPT
                          !.panic = r.panic,
                          !.result = IF opened THEN <<"Ok">> ELSE r.result]

CanCall ==
    /\ framebuffer.type = "Framebuffer"
    /\ ~out.panic
    /\ out.calls < MaxCalls

SetPixel ==
    /\ CanCall
    /\ \E x \in Columns(framebuffer), y \in Rows(framebuffer) :
          LET r == FramebufferSetPixel(framebuffer, x, y, Red)
          IN /\ framebuffer' = r.fb
             /\ out' = [Returned("set_pixel") EXCEPT !.panic = r.panic, !.x = x, !.y = y,
                                                      !.calls = out.calls + 1]
    /\ UNCHANGED <<compositor, rectangle, caption, color_string, color>>

Draw ==
    /\ CanCall
    /\ \E x \in Columns(framebuffer), y \in Rows(framebuffer) :
          LET r == FramebufferDraw(framebuffer, x, y, Drawn)
          IN /\ framebuffer' = r.fb
             /\ out' = [Returned("draw") EXCEPT !.panic = r.panic, !.x = x, !.y = y,
                                                 !.grid = ShapeRender(Drawn),
                                                 !.calls = out.calls + 1]
    /\ UNCHANGED <<compositor, rectangle, caption, color_string, color>>

Flush ==
    /\ CanCall
    /\ framebuffer' = FramebufferFlush(framebuffer)
    /\ out' = [Returned("flush") EXCEPT !.calls = out.calls + 1]
    /\ UNCHANGED <<compositor, rectangle, caption, color_string, color>>

NextFramebuffer == SetPixel \/ Draw \/ Flush

SpecFramebuffer == InitFramebuffer /\ [][NextFramebuffer]_vars

\* One object at a time.
NextCompositor == AddPlaced \/ Render

SpecCompositor == InitCompositor /\ [][NextCompositor]_vars

NextRectangle == RenderRectangle

SpecRectangle == InitRectangle /\ [][NextRectangle]_vars

NextCaption == SplitCaption \/ RenderCaption

SpecCaption == InitCaption /\ [][NextCaption]_vars

\* One semi-transparent pixel (alpha 128) over one opaque pixel, for every
\* pair of channel values.
InitBlend ==
    /\ compositor \in {CompositorNew(1, 1, Color(d, 255 - d, d, 255)) : d \in 0..255}
    /\ rectangle = Absent
    /\ caption = Absent
    /\ color_string = Absent
    /\ color = Absent
    /\ framebuffer = Absent
    /\ out = Returned("new")

AddSemi ==
    \E s \in 0..255 :
        /\ compositor.shapes = <<>>
        /\ Add("a", At(Rectangle(1, 1, 0, None, Some(Color(s, s, 255 - s, 128))), 0, 0))

NextBlend == AddSemi \/ Render

SpecBlend == InitBlend /\ [][NextBlend]_vars

\* Lookups by name: entries of both types under both names.
InitLookup ==
    /\ compositor = CompositorNew(MaxDim, MaxDim, Black)
    /\ rectangle = Absent
    /\ caption = Absent
    /\ color_string = Absent
    /\ color = Absent
    /\ framebuffer = Absent
    /\ out = Returned("new")

AddNamed == \E name \in Names, s \in ChildShapes : Add(name, At(s, 0, 0))

LookupPositionedAny == \E name \in Names : LookupPositioned(name)

LookupAny == \E name \in Names, T \in ShapeTypes : Lookup(name, T)

NextLookup == AddNamed \/ LookupPositionedAny \/ LookupAny

SpecLookup == InitLookup /\ [][NextLookup]_vars

(***************************************************************************)
(* Properties.                                                             *)
(***************************************************************************)
\* render returned a grid.
Rendered == out.op = "render" /\ ~out.panic

ChildGrid(i) == ShapeRender(compositor.shapes[i][2].shape)

\* The cell of child i that lands on cell (X, Y) of the canvas, None when
\* the child has no cell there.
SourceAt(i, X, Y) ==
    LET ps == compositor.shapes[i][2]
        g  == ChildGrid(i)
    IN IF /\ X >= ps.x
          /\ Y >= ps.y
          /\ Y - ps.y < Len(g)
          /\ X - ps.x < Len(g[Y - ps.y + 1])
       THEN g[Y - ps.y + 1][X - ps.x + 1]
       ELSE None

\* The children that put a Some cell on (X, Y).
Covering(X, Y) == {i \in 1..Len(compositor.shapes) : SourceAt(i, X, Y) # None}

SetMax(S) == CHOOSE m \in S : \A n \in S : n <= m

SetMin(S) == CHOOSE m \in S : \A n \in S : m <= n

CanvasCells == (0..(compositor.width - 1)) \X (0..(compositor.height - 1))

\* Child i is fully opaque, of the canvas's size and placed at the origin.
OpaqueOfCanvasSize(i) ==
    LET ps == compositor.shapes[i][2]
        g  == ChildGrid(i)
    IN /\ ps.x = 0 /\ ps.y = 0
       /\ Len(g) = compositor.height
       /\ \A y \in 1..Len(g) :
            /\ Len(g[y]) = compositor.width
            /\ \A x \in 1..Len(g[y]) : g[y][x] # None /\ g[y][x][1].alpha = 255

\* C1: painter's order.  After render, a cell whose latest-inserted covering
\* Some cell has alpha 255 holds exactly that colour, whatever the background
\* and the earlier shapes; a last-inserted opaque child of the canvas's size
\* gives a grid equal to the child's own grid.
C1_PaintersOrder ==
    Rendered =>
        /\ \A c \in CanvasCells :
             Covering(c[1], c[2]) # {} =>
                LET top == SourceAt(SetMax(Covering(c[1], c[2])), c[1], c[2])[1]
                IN top.alpha = 255 => out.grid[c[2] + 1][c[1] + 1] = Some(top)
        /\ \A i \in 1..Len(compositor.shapes) :
             (i = Len(compositor.shapes) /\ OpaqueOfCanvasSize(i)) => out.grid = ChildGrid(i)

\* An opaque child of the canvas's size was added last, over a
\* semi-transparent child on a semi-transparent background, and rendered.
C1_Witness ==
    /\ Rendered
    /\ compositor.background.alpha # 255
    /\ Len(compositor.shapes) = 2
    /\ compositor.width > 0 /\ compositor.height > 0
    /\ OpaqueOfCanvasSize(2)
    /\ \E c \in CanvasCells :
          /\ Covering(c[1], c[2]) = {1, 2}
          /\ SourceAt(1, c[1], c[2])[1].alpha = 128
    /\ out.grid = ChildGrid(2)

\* C3: after render, a cell no child covered with a Some cell equals the
\* background, its alpha included; a cell some Some cell was blended onto has
\* alpha 255.
C3_UntouchedKeepBackground ==
    Rendered =>
        \A c \in CanvasCells :
            IF Covering(c[1], c[2]) = {}
            THEN out.grid[c[2] + 1][c[1] + 1] = Some(compositor.background)
            ELSE out.grid[c[2] + 1][c[1] + 1][1].alpha = 255

\* A render over a semi-transparent background left one cell untouched, under
\* a None cell of a child, and blended a semi-transparent cell onto another.
C3_Witness ==
    /\ Rendered
    /\ compositor.background.alpha = 128
    /\ \E c \in CanvasCells, i \in 1..Len(compositor.shapes) :
          LET ps == compositor.shapes[i][2]
          IN /\ Covering(c[1], c[2]) = {}
             /\ c[1] >= ps.x /\ c[2] >= ps.y
             /\ c[2] - ps.y < Len(ChildGrid(i))
             /\ c[1] - ps.x < Len(ChildGrid(i)[1])
             /\ out.grid[c[2] + 1][c[1] + 1][1].alpha = 128
    /\ \E c \in CanvasCells :
          /\ Covering(c[1], c[2]) # {}
          /\ \A i \in Covering(c[1], c[2]) : SourceAt(i, c[1], c[2])[1].alpha < 255
          /\ out.grid[c[2] + 1][c[1] + 1][1].alpha = 255

\* The grid of child i with every None cell replaced by Some(c).
NoneReplaced(grid, c) ==
    [y \in 1..Len(grid) |->
        [x \in 1..Len(grid[y]) |-> IF grid[y][x] = None THEN Some(c) ELSE grid[y][x]]]

WithNoneReplaced(i, c) ==
    [compositor EXCEPT
        !.shapes[i][2].shape = [type |-> "Grid", grid |-> NoneReplaced(ChildGrid(i), c)]]

\* C4: None and a Some cell of alpha 0 are equivalent for composition.
\* Replacing the None cells of any child by a colour of alpha 0 leaves the
\* rendered grid unchanged, for every background.
C4_NoneEqualsAlphaZero ==
    Rendered =>
        \A i \in 1..Len(compositor.shapes), c \in {Color(0, 0, 0, 0), Clear} :
            CompositorRender(WithNoneReplaced(i, c), FALSE).grid = out.grid

\* Every cell of child i falls outside the canvas: its x offset is at least
\* the width or its y offset at least the height.
Outside(i) ==
    \/ UsizeGe(compositor.shapes[i][2].x, compositor.width)
    \/ UsizeGe(compositor.shapes[i][2].y, compositor.height)

Without(i) ==
    [compositor EXCEPT
        !.shapes = SubSeq(@, 1, i - 1) \o SubSeq(@, i + 1, Len(@))]

\* C5: clipping.  A child whose x offset is at least the width or whose y
\* offset is at least the height leaves the rendered grid equal to the render
\* of the same compositor without that child, and the render raises no error.
C5_ClippedChildInvisible ==
    out.op = "render" =>
        \A i \in 1..Len(compositor.shapes) :
            Outside(i) =>
                /\ ~out.panic
                /\ out.grid = CompositorRender(Without(i), FALSE).grid

\* The entries of self.shapes with the name looked up.
Named(name) == {i \in 1..Len(compositor.shapes) : compositor.shapes[i][1] = name}

\* C6: get_positioned(name) returns the earliest-inserted entry of that name;
\* get<T>(name) returns it when its type is T, and None when no entry has the
\* name or the earliest one has another type, whatever later entries hold.
C6_FirstMatch ==
    /\ out.op = "get_positioned" =>
          out.index = IF Named(out.name) = {} THEN 0 ELSE SetMin(Named(out.name))
    /\ out.op = "get" =>
          out.index = IF Named(out.name) = {} THEN 0
                      ELSE IF compositor.shapes[SetMin(Named(out.name))][2].shape.type = out.T
                           THEN SetMin(Named(out.name))
                           ELSE 0

\* get<T>(name) returned None although a later entry of that name has type T.
C6_Witness ==
    /\ out.op = "get"
    /\ out.index = 0
    /\ Cardinality(Named(out.name)) = 2
    /\ compositor.shapes[SetMax(Named(out.name))][2].shape.type = out.T

Rectangular(g) == \A y \in 1..Len(g) : Len(g[y]) = Len(g[1])

\* C7: rectangularity.  Every grid a Rectangle, a Compositor or a Caption
\* returns from render has rows of one length; a Compositor's is height rows
\* of width cells, none of them None.
C7_Rectangular ==
    /\ Rendered =>
          /\ Len(out.grid) = compositor.height
          /\ \A y \in 1..Len(out.grid) :
                /\ Len(out.grid[y]) = compositor.width
                /\ \A x \in 1..Len(out.grid[y]) : out.grid[y][x] # None
    /\ (out.op = "rectangle_render" /\ ~out.panic) => Rectangular(out.grid)
    /\ (out.op = "caption_render" /\ ~out.panic) => Rectangular(out.grid)

\* A caption with a width limit returned a grid of several lines, one of them
\* wider than the limit, with the one-cell gap rows in between.
C7_Witness ==
    /\ out.op = "caption_render"
    /\ ~out.panic
    /\ caption.max_width # None
    /\ caption.size > 0
    /\ LET lines == SplitText(caption).lines
       IN /\ Len(lines) >= 3
          /\ \E i \in 1..Len(lines) : StrWidth(caption, lines[i]) > caption.max_width[1]
          /\ \E i \in 1..Len(lines) : StrWidth(caption, lines[i]) < caption.max_width[1]
    /\ Len(out.grid) > 0

\* Cell (x, y) lies within border_width of an edge of r.
NearEdge(r, x, y) ==
    \/ x < r.border_width
    \/ (r.width - 1) - x < r.border_width
    \/ y < r.border_width
    \/ (r.height - 1) - y < r.border_width

\* C10: Rectangle.render completes for every width, height and border_width
\* and returns height rows of width cells, border_color within border_width
\* of an edge and fill_color elsewhere; border_width 0 gives a uniform grid of
\* fill_color and a zero width or height gives a grid without cells.
C10_RectangleRender ==
    out.op = "rectangle_render" =>
        /\ ~out.panic
        /\ Len(out.grid) = rectangle.height
        /\ \A y \in 1..Len(out.grid) :
              /\ Len(out.grid[y]) = rectangle.width
              /\ \A x \in 1..Len(out.grid[y]) :
                    out.grid[y][x] = IF NearEdge(rectangle, x - 1, y - 1)
                                     THEN rectangle.border_color
                                     ELSE rectangle.fill_color
        /\ rectangle.border_width = 0 =>
              out.grid = Filled(rectangle.width, rectangle.height, rectangle.fill_color)
        /\ (rectangle.width = 0 \/ rectangle.height = 0) =>
              \A y \in 1..Len(out.grid) : out.grid[y] = <<>>

\* A rectangle whose border is wider than its height but not than its width,
\* with distinct colours, was rendered.
C10_Witness ==
    /\ out.op = "rectangle_render"
    /\ rectangle.height > 0
    /\ rectangle.border_width > rectangle.height
    /\ rectangle.border_width < rectangle.width
    /\ rectangle.border_color # rectangle.fill_color
    /\ out.grid = Filled(rectangle.width, rectangle.height, rectangle.border_color)

\* The source and destination of the one blend of a SpecBlend render.
BlendSource == compositor.shapes[1][2].shape.fill_color[1]

BlendCase ==
    /\ Rendered
    /\ Len(compositor.shapes) = 1
    /\ compositor.shapes[1][2].shape.type = "Rectangle"
    /\ compositor.shapes[1][2].shape.fill_color # None
    /\ BlendSource.alpha = 128
    /\ compositor.background.alpha = 255
    /\ Len(out.grid) = 1 /\ Len(out.grid[1]) = 1
    /\ compositor.shapes[1][2].x = 0 /\ compositor.shapes[1][2].y = 0
    /\ compositor.shapes[1][2].shape.border_width = 0

\* round(src * 0.5 + dst * 0.5), halves rounded up.
RoundedMean(src, dst) == (src + dst + 1) \div 2

\* What the f32 blend of alpha 128 yields: the weights are 128/255 and
\* 127/255 and the cast truncates; for src 0 over dst 255 the f32 product
\* 255 * (1 - 128/255) falls just below 127.
TruncatedBlend128(src, dst) ==
    IF src = 0 /\ dst = 255 THEN 126 ELSE (128 * src + 127 * dst) \div 255

\* C2 as stated: a source cell of alpha 128 over an opaque destination gives,
\* per channel, round(src * 0.5 + dst * 0.5), and alpha 255.
C2_RoundedHalfBlend ==
    BlendCase =>
        out.grid[1][1] =
            Some(Color(RoundedMean(BlendSource.red, compositor.background.red),
                       RoundedMean(BlendSource.green, compositor.background.green),
                       RoundedMean(BlendSource.blue, compositor.background.blue),
                       255))

\* C2 amended: a source cell of alpha 128 over an opaque destination gives,
\* per channel, floor((128 * src + 127 * dst) / 255), except 126 for src 0
\* over dst 255, and alpha 255.
C2_TruncatedBlend ==
    BlendCase =>
        out.grid[1][1] =
            Some(Color(TruncatedBlend128(BlendSource.red, compositor.background.red),
                       TruncatedBlend128(BlendSource.green, compositor.background.green),
                       TruncatedBlend128(BlendSource.blue, compositor.background.blue),
                       255))

\* Alpha 128 was blended over an opaque pixel where truncation and rounding
\* differ: source channel 1 over destination channel 0 gave 0.
C2_Witness ==
    /\ BlendCase
    /\ BlendSource.red = 1
    /\ compositor.background.red = 0
    /\ out.grid[1][1][1].red = 0
    /\ out.grid[1][1][1].alpha = 255

IsLetters(t) == Len(t) > 0 /\ \A k \in 1..Len(t) : t[k] \in {"a", "e"}

\* The text is two words separated by one line feed, at character n.
TwoWordsAt(t, n) ==
    /\ t[n] = "\n"
    /\ IsLetters(SubSeq(t, 1, n - 1))
    /\ IsLetters(SubSeq(t, n + 1, Len(t)))

\* C8: with max_width = None, a text of two words separated by one line feed
\* yields exactly two lines, the word before the line feed and the word
\* after it.
C8_TwoWordsTwoLines ==
    (out.op = "split_text" /\ caption.max_width = None) =>
        \A n \in 1..Len(caption.text) :
            TwoWordsAt(caption.text, n) =>
                /\ ~out.panic
                /\ out.lines = << SubSeq(caption.text, 1, n - 1),
                                  SubSeq(caption.text, n + 1, Len(caption.text)) >>

RECURSIVE NonDecreasing(_, _)
NonDecreasing(seq, i) ==
    IF i >= Len(seq) THEN TRUE
    ELSE seq[i] <= seq[i + 1] /\ NonDecreasing(seq, i + 1)

\* C9: line breaking raises no error.  For every text and max_width
\* split_text returns its lines; the break offsets it collects are in
\* non-decreasing order and each is a valid offset to slice the text at.
C9_SplitTextCompletes ==
    out.op = "split_text" =>
        /\ ~out.panic
        /\ NonDecreasing(out.where_to_break, 1)
        /\ \A k \in 1..Len(out.where_to_break) :
              IsCharBoundary(caption.text, out.where_to_break[k])

(***************************************************************************)
(* Color::hex.                                                             *)
(***************************************************************************)
\* The digits in the order of their values; the value of a digit is its
\* place in the list, whatever its case.
LowerDigits == <<"0", "1", "2", "3", "4", "5", "6", "7", "8", "9",
                 "a", "b", "c", "d", "e", "f">>

UpperDigits == <<"0", "1", "2", "3", "4", "5", "6", "7", "8", "9",
                 "A", "B", "C", "D", "E", "F">>

IsHexChar(c) == \E v \in 1..16 : c = LowerDigits[v] \/ c = UpperDigits[v]

ValueOf(c) == (CHOOSE v \in 1..16 : c = LowerDigits[v] \/ c = UpperDigits[v]) - 1

PairValue(str, i) == 16 * ValueOf(str[i]) + ValueOf(str[i + 1])

\* What Color::hex is to return when the length that is tested first is n.
HexContract(str, n) ==
    IF n \notin {7, 9}
    THEN Err(InvalidColorString(str, "length must be 7 or 9"))
    ELSE IF str = <<>> \/ str[1] # "#"
    THEN Err(InvalidColorString(str, "first char must be #"))
    ELSE IF \E i \in 2..Len(str) : ~IsHexChar(str[i])
    THEN Err(InvalidColorString(str, "all characters but first must be hex"))
    ELSE Ok(Color(PairValue(str, 2), PairValue(str, 4), PairValue(str, 6),
                  IF Len(str) = 9 THEN PairValue(str, 8) ELSE 255))

\* C11 as stated: Color::hex accepts a string exactly when it has 7 or 9
\* characters, starts with "#" and has hex digits elsewhere, returns the
\* values of the digit pairs (alpha 255 without a fourth pair), and otherwise
\* returns InvalidColorString with the string, testing the number of
\* characters first, then the marker, then the digits.
C11_HexByCharacters ==
    out.op = "hex" => out.result = HexContract(color_string.chars, Len(color_string.chars))

\* C11, amended: the same with the length counted in bytes of UTF-8, so a
\* string with a two-byte character is measured one longer than its number of
\* characters; the call never panics.
C11_HexByBytes ==
    out.op = "hex" =>
        /\ ~out.panic
        /\ out.result = HexContract(color_string.chars, ColorStringLen(color_string.chars))
        /\ out.result[1] = "Ok" <=>
               /\ Len(color_string.chars) \in {7, 9}
               /\ color_string.chars[1] = "#"
               /\ \A i \in 2..Len(color_string.chars) : IsHexChar(color_string.chars[i])

\* A string of seven characters, one of them of two bytes, refused for its
\* length.
C11_Witness ==
    /\ out.op = "hex"
    /\ Len(color_string.chars) = 7
    /\ color_string.chars[1] = "#"
    /\ \E i \in 2..7 : color_string.chars[i] = "é"
    /\ out.result = Err(InvalidColorString(color_string.chars, "length must be 7 or 9"))

(***************************************************************************)
(* Colour times coefficient.                                               *)
(***************************************************************************)
One == F32FromU8(1)

Channels(c) == <<c.red, c.green, c.blue>>

\* What the claim says of the product p of colour c and coefficient k.
Scaled(c, k, p) ==
    /\ p.alpha = c.alpha
    /\ \A i \in 1..3 : Channels(p)[i] \in 0..Channels(c)[i]
    /\ k = One => p = c
    /\ k = F32Zero => Channels(p) = <<0, 0, 0>>
    /\ (k = Half /\ c = Color(128, 128, 128, 128)) => p = Color(64, 64, 64, 128)

\* C12: `*` and `*=` by a coefficient in [0, 1] scale red, green and blue and
\* leave alpha alone, every channel staying in 0..255: by 1.0 the colour is
\* unchanged, by 0.0 red, green and blue are 0, and (128,128,128,128) * 0.5
\* is (64,64,64,128).  `*` leaves its operand alone, `*=` stores the product.
C12_ScalesAllButAlpha ==
    [][/\ out'.op = "mul" =>
             Scaled(color, out'.coeff, out'.result) /\ color' = color
       /\ out'.op = "mul_assign" =>
             Scaled(color, out'.coeff, color') /\ color' = ColorMul(color, out'.coeff)]_vars

\* The documented product, returned by `*`.
C12_Witness ==
    /\ out.op = "mul"
    /\ out.coeff = Half
    /\ color = Color(128, 128, 128, 128)
    /\ out.result = Color(64, 64, 64, 128)

(***************************************************************************)
(* Framebuffer.                                                            *)
(***************************************************************************)
\* The four bytes stored for pixel (x, y) of the surface.
StoredPixel(fb, x, y) ==
    [k \in 1..4 |-> fb.screen[(y * fb.screen_info.xres + x) * 4 + k]]

OnSurface(fb, x, y) ==
    /\ x >= 0 /\ x < fb.screen_info.xres
    /\ y >= 0 /\ y < fb.screen_info.yres

Surface(fb) == (0..fb.screen_info.xres - 1) \X (0..fb.screen_info.yres - 1)

\* The pixels the last call was asked to set: (x, y) for set_pixel, the
\* places of the Some cells of the grid for draw.
Targets(o) ==
    IF o.op = "set_pixel" THEN {<<o.x, o.y>>}
    ELSE {<<o.x + ix - 1, o.y + iy - 1>> :
             <<ix, iy>> \in {c \in (1..2) \X (1..Len(o.grid)) :
                               /\ c[1] <= Len(o.grid[c[2]])
                               /\ o.grid[c[2]][c[1]] # None}}

\* C13 as stated: a set_pixel or draw with a target (x, y), x >= xres or
\* y >= yres, fails, and changes no stored pixel of the surface other than
\* those it was asked to set.
C13_OutsideTargetsFail ==
    [][(/\ out'.op \in {"set_pixel", "draw"}
        /\ \E t \in Targets(out') : ~OnSurface(framebuffer, t[1], t[2]))
       => /\ out'.panic
          /\ \A p \in Surface(framebuffer) \ Targets(out') :
                StoredPixel(framebuffer', p[1], p[2]) = StoredPixel(framebuffer, p[1], p[2])]_vars

\* C14: set_pixel and draw change the internal buffer only and leave the
\* device buffer alone; the device buffer changes in flush only, which copies
\* the internal buffer to it and leaves the internal buffer alone.
C14_Staging ==
    [][/\ out'.op \in {"set_pixel", "draw"} =>
             /\ framebuffer'.framebuffer = framebuffer.framebuffer
             /\ framebuffer'.screen_info = framebuffer.screen_info
       /\ framebuffer'.framebuffer # framebuffer.framebuffer => out'.op = "flush"
       /\ out'.op = "flush" =>
             /\ framebuffer'.framebuffer = framebuffer'.screen
             /\ framebuffer'.screen = framebuffer.screen]_vars

\* A flush after a draw: the device shows what was drawn.
C14_Witness ==
    /\ out.op = "flush"
    /\ out.calls >= 2
    /\ framebuffer.framebuffer = framebuffer.screen
    /\ \E n \in 1..Len(framebuffer.screen) : framebuffer.screen[n] # 0

(***************************************************************************)
(* Soft wrapping.                                                          *)
(***************************************************************************)
\* The text is two words of "a" separated by one space, at character n.
TwoWordsSpacedAt(t, n) ==
    /\ n > 1
    /\ n < Len(t)
    /\ \A k \in 1..Len(t) : t[k] = (IF k = n THEN " " ELSE "a")

\* C15: when the text up to the last opportunity is wider than max_width and
\* the previous opportunity follows a space, the line is closed before that
\* space and the space is on neither line: of two words separated by a space
\* the first line is the first word and the second line the second word.
C15_TrimmedSpaceOnNeitherLine ==
    (out.op = "split_text" /\ caption.max_width # None) =>
        \A n \in 1..Len(caption.text) :
            (/\ TwoWordsSpacedAt(caption.text, n)
             /\ StrWidth(caption, caption.text) > caption.max_width[1]) =>
                /\ ~out.panic
                /\ Len(out.lines) >= 2
                /\ out.lines[1] = SubSeq(caption.text, 1, n - 1)
                /\ out.lines[2] = SubSeq(caption.text, n + 1, Len(caption.text))

(***************************************************************************)
(* Alignment.                                                              *)
(***************************************************************************)
\* A caption of one line of letters, one pixel high, with a target width:
\* the first row of its grid is the aligned row of the text.
OneLine ==
    /\ out.op = "caption_render"
    /\ ~out.panic
    /\ caption.size = 1
    /\ caption.max_width # None
    /\ IsLetters(caption.text)

TextRow == RenderLine(caption, caption.text)[1]

Target == caption.max_width[1]

\* w cells of the row from cell `from` + 1 on.
Kept(row, from, w) == [x \in 1..w |-> row[from + x]]

\* The row placed at offset `at` of w cells, the rest None.
PlacedAt(row, at, w) ==
    [x \in 1..w |-> IF x > at /\ x <= at + Len(row) THEN row[x - at] ELSE None]

\* C16 as stated: of a row wider than the target width w, Right keeps the
\* trailing w cells and Center the middle w cells (left offset by floor);
\* a row not wider than w is put rightmost by Right and at offset
\* floor((w - len) / 2) by Center, the rest being None.
C16_KeepsTrailingOrMiddle ==
    OneLine =>
        LET row == TextRow
            w   == Target
        IN /\ caption.alignment = "Right" =>
                out.grid[1] = IF Len(row) > w THEN Kept(row, Len(row) - w, w)
                              ELSE PlacedAt(row, w - Len(row), w)
           /\ caption.alignment = "Center" =>
                out.grid[1] = IF Len(row) > w THEN Kept(row, (Len(row) - w) \div 2, w)
                              ELSE PlacedAt(row, (w - Len(row)) \div 2, w)

\* C16, amended: of a row wider than w, Right and Center both keep the
\* leading w cells; a row not wider than w is put rightmost by Right and at
\* offset floor((w - len) / 2) by Center, the rest being None.
C16_KeepsLeading ==
    OneLine =>
        LET row == TextRow
            w   == Target
        IN /\ caption.alignment = "Right" =>
                out.grid[1] = IF Len(row) > w THEN Kept(row, 0, w)
                              ELSE PlacedAt(row, w - Len(row), w)
           /\ caption.alignment = "Center" =>
                out.grid[1] = IF Len(row) > w THEN Kept(row, 0, w)
                              ELSE PlacedAt(row, (w - Len(row)) \div 2, w)

\* A right-aligned row too wide by one cell whose first and last cells
\* differ: the first is kept.
C16_Witness ==
    /\ OneLine
    /\ caption.alignment = "Right"
    /\ Target >= 1
    /\ Len(TextRow) = Target + 1
    /\ TextRow[1] # TextRow[Len(TextRow)]
    /\ out.grid[1][Target] = TextRow[Target]
====
